---- MODULE Spec2Model ----
(***************************************************************************)
(* Model of marlin_pytorch/model/marlin.py: the clip generator             *)
(* Marlin._load_video, its consumer Marlin.extract_video, and the          *)
(* checkpoint loader Marlin.from_file.                                     *)
(*                                                                         *)
(* A frame is identified by its raw position in the decoded stream         *)
(* (0, 1, 2, ...).  NoFrame stands for Python's None.  A clip is the       *)
(* sequence of the frames stacked by torch.stack, in stacking order.       *)
(***************************************************************************)
EXTENDS Integers, Sequences, FiniteSets, TLC

\* ------------------------------------------------------------------ bounds
MaxClip == 4
MaxRate == 3
MaxStride == 2
MaxFrames == 14
MaxInitCalls == 2
MaxBatch == 3
MaxFeat == 1

\* The fixed input resolution of line 142; decoded frames have it or not.
HW224 == 224
FrameSizes == {HW224, HW224 \div 2}

NoFrame == 0 - 1

VARIABLES
    \* ---- inputs of extract_video / _load_video
    clip_frames,     \* self.clip_frames (n_frames of the model)
    sample_rate,     \* sample_rate argument
    stride,          \* stride argument
    total_frames,    \* nb_frames reported by ffprobe
    n_decoded,       \* number of frames the decoder delivers (<= total_frames)
    frame_hw,        \* spatial size of the decoded frames
    crop_face,       \* crop_face argument
    \* ---- state of the generator _load_video
    pc,              \* control location of generator and consumer
    resume,          \* where the generator resumes after the pending yield
    cap_open,        \* the cv2.VideoCapture handle is open
    cap_pos,         \* raw position of the next frame cap.read() delivers
    deq,             \* deque(maxlen=clip_frames)
    current_index,   \* current_index
    last_frame,      \* last_frame
    tail_i,          \* iterations done of the tail loop, line 210
    v,               \* the clip handed over by the pending yield
    \* ---- state of the consumer extract_video
    clips,           \* the clips received so far, in order
    features,        \* the list `features`
    reduction,       \* reduction argument
    result,          \* the value extract_video returns
    \* ---- process-wide state
    inited,          \* FaceXZooFaceDetector.inited
    init_calls,      \* number of calls of FaceXZooFaceDetector.init so far
    \* ---- state of from_file
    fpc,             \* control location of from_file
    path,            \* path argument (sequence of tokens)
    stored,          \* weight names held by the file's weight mapping
    state_dict,      \* local state_dict (set of names)
    ferror,          \* message of the ValueError from_file raised, if any
    as_feature_extractor,
    model            \* the constructed Marlin object

videoVars == <<clip_frames, sample_rate, stride, total_frames, n_decoded, frame_hw,
               crop_face, pc, resume, cap_open, cap_pos, deq, current_index,
               last_frame, tail_i, v, clips, features, reduction, result,
               inited, init_calls>>
fileVars == <<fpc, path, stored, state_dict, ferror, as_feature_extractor, model>>
vars == <<clip_frames, sample_rate, stride, total_frames, n_decoded, frame_hw,
          crop_face, pc, resume, cap_open, cap_pos, deq, current_index,
          last_frame, tail_i, v, clips, features, reduction, result,
          inited, init_calls,
          fpc, path, stored, state_dict, ferror, as_feature_extractor, model>>

\* ------------------------------------------------------------ pure helpers

\* Python's x in range(a, b)
InRange(x, a, b) == a <= x /\ x < b

\* read_video: the whole decoded video, frames 0 .. n-1 in order
read_video(n) == [i \in 1..n |-> i - 1]

\* seq[:k]
Slice(seq, k) == SubSeq(seq, 1, IF k < Len(seq) THEN k ELSE Len(seq))

\* padding_video(video, target, "same"): repeat-last-frame policy at the tail
padding_video(video, target) ==
    [i \in 1..(IF target > Len(video) THEN target ELSE Len(video)) |->
        IF i <= Len(video) THEN video[i] ELSE video[Len(video)]]

\* variant: the frame enters at the left end (deque.appendleft)
DeqAppendLeft(d, f, maxlen) ==
    IF Len(d) < maxlen THEN <<f>> \o d ELSE <<f>> \o SubSeq(d, 1, Len(d) - 1)

\* variant: a deque without maxlen, nothing is ever evicted
DeqAppendUnbounded(d, f, maxlen) == Append(d, f)

\* deque.append on a deque with maxlen
DeqAppend(d, f, maxlen) ==
    IF Len(d) < maxlen THEN Append(d, f) ELSE Append(Tail(d), f)

\* n successive deque.append(f); n <= 0 appends nothing (range(n) is empty)
RECURSIVE DeqAppendN(_, _, _, _)
DeqAppendN(d, f, n, maxlen) ==
    IF n <= 0 THEN d ELSE DeqAppendN(DeqAppend(d, f, maxlen), f, n - 1, maxlen)

\* variant: the first clip is emitted once the window is full
ClipEndLoFull == clip_frames

\* the bounds of clip_end_indexes as reassigned on line 182
ClipEndLo == clip_frames \div 2
ClipEndHi == total_frames + clip_frames \div 2

\* line 179: range(0, total_frames - clip_frames * sample_rate, stride * sample_rate)
ClipStartIndexes(s) ==
    {i \in 0..(total_frames - clip_frames * sample_rate - 1) : i % (s * sample_rate) = 0}

\* line 180: the first value bound to clip_end_indexes
ClipEndIndexesStrided(s) ==
    {i + clip_frames * sample_rate - 1 : i \in ClipStartIndexes(s)}

\* variant: line 182 is absent and the stride decides where clips end
ClipEndIndexesFromStride(s) == ClipEndIndexesStrided(s)

\* clip_end_indexes as the frame loop sees it: line 182 rebinds the name, and
\* the list of line 180 is dropped unread
ClipEndIndexes(s) ==
    LET strided == ClipEndIndexesStrided(s)
        rebound == {i \in ClipEndLo..(ClipEndHi - 1) : InRange(i, ClipEndLo, ClipEndHi)}
    IN  rebound

\* line 204, for the stride this call was given
InClipEndIndexes(i) == i \in ClipEndIndexes(stride)

\* the feature extractor is an external, deterministic function of the clip;
\* its stand-in maps a clip to the vector (first frame, last frame)
extract_features(clip) == <<clip[1], clip[Len(clip)]>>

\* variant: the new feature is put in front of the list
FeaturesPrepend(fs, clip) == <<extract_features(clip)>> \o fs

\* line 143: features.append(self.extract_features(v, ...))
FeaturesAfter(fs, clip) == Append(fs, extract_features(clip))

\* sum and maximum over the first axis of a batch, at coordinate j
RECURSIVE ColumnSum(_, _)
ColumnSum(batch, j) ==
    IF batch = <<>> THEN 0 ELSE batch[1][j] + ColumnSum(Tail(batch), j)
RECURSIVE ColumnMax(_, _)
ColumnMax(batch, j) ==
    IF Len(batch) = 1 THEN batch[1][j]
    ELSE IF batch[1][j] >= ColumnMax(Tail(batch), j)
           THEN batch[1][j] ELSE ColumnMax(Tail(batch), j)

\* variant: the sum over the batch is not divided by its size
FeatureSum(batch) ==
    [j \in 1..Len(batch[1]) |-> [num |-> ColumnSum(batch, j), den |-> 1]]

\* line 148: features.mean(dim=0); a coordinate is the fraction num / den
FeatureMean(batch) ==
    [j \in 1..Len(batch[1]) |-> [num |-> ColumnSum(batch, j), den |-> Len(batch)]]

\* line 150: features.max(dim=0)[0]
FeatureMax(batch) == [j \in 1..Len(batch[1]) |-> ColumnMax(batch, j)]

\* the values of the reduction argument that lines 147-152 tell apart
Reductions == {"none", "mean", "max"}

\* lines 147-152
Reduce(red, batch) ==
    IF red = "mean" THEN FeatureMean(batch)
    ELSE IF red = "max" THEN FeatureMax(batch)
    ELSE batch

\* variant: the detector is initialised for every clip
NeedsInitAlways(cf, ini) == cf

\* lines 134-135: the detector is initialised before this clip is cropped
NeedsInit(cf, ini) == cf /\ ~ini

\* FaceXZooFaceDetector.init marks the detector initialised
InitedAfterInit == TRUE

\* --------------------------------------------------------- the three regimes
ShortRegime == total_frames <= clip_frames
MediumRegime == ~ShortRegime /\ total_frames <= clip_frames * sample_rate
LongRegime == ~ShortRegime /\ ~MediumRegime

genVars == <<resume, cap_open, cap_pos, deq, current_index, last_frame, tail_i, v>>
inputVars == <<clip_frames, sample_rate, stride, total_frames, n_decoded, frame_hw,
               crop_face>>
procVars == <<inited, init_calls>>
outVars == <<reduction, result>>

\* the generator yields clip c and will resume at r
\* variant: the clip is buffered and the producer carries on
YieldBuffered(c, r) ==
    /\ v' = c
    /\ clips' = Append(clips, c)
    /\ resume' = r
    /\ pc' = r

Yield(c, r) ==
    /\ v' = c
    /\ clips' = Append(clips, c)
    /\ resume' = r
    /\ pc' = "yielded"

\* variant: the short branch slices like the medium branch and never pads
ShortClipSliced ==
    SubSeq(read_video(n_decoded), 1,
           IF clip_frames < n_decoded THEN clip_frames ELSE n_decoded)

\* variant: the medium branch decimates by sample_rate before slicing
MediumClipDecimated ==
    [i \in 1..(IF clip_frames < (n_decoded + sample_rate - 1) \div sample_rate
                 THEN clip_frames
                 ELSE (n_decoded + sample_rate - 1) \div sample_rate)
        |-> (i - 1) * sample_rate]

\* the clip of the short-video branch, lines 161-163
ShortClip == padding_video(read_video(n_decoded), clip_frames)

\* the clip of the medium-video branch, lines 167-172: the padded tensor of
\* line 171 is overwritten by the slice of line 172
MediumClip == Slice(read_video(n_decoded), clip_frames)

\* lines 160-165; a video with no frame has no last frame to repeat, and the
\* assertion of line 164 rejects a clip that is not clip_frames long
LoadShort ==
    /\ pc = "start" /\ ShortRegime
    /\ IF n_decoded = 0 \/ Len(ShortClip) # clip_frames
         THEN /\ pc' = "error"
              /\ UNCHANGED <<resume, v, clips>>
         ELSE Yield(ShortClip, "end")
    /\ UNCHANGED <<cap_open, cap_pos, deq, current_index, last_frame, tail_i, features>>
    /\ UNCHANGED inputVars /\ UNCHANGED fileVars
    /\ UNCHANGED procVars /\ UNCHANGED outVars

\* lines 166-173; padding_video on line 171 has no last frame to repeat when
\* the decoder delivers nothing
LoadMedium ==
    /\ pc = "start" /\ MediumRegime
    /\ IF n_decoded = 0
         THEN /\ pc' = "error"
              /\ UNCHANGED <<resume, v, clips>>
         ELSE Yield(MediumClip, "end")
    /\ UNCHANGED <<cap_open, cap_pos, deq, current_index, last_frame, tail_i, features>>
    /\ UNCHANGED inputVars /\ UNCHANGED fileVars
    /\ UNCHANGED procVars /\ UNCHANGED outVars

\* lines 174-185
LoadLong ==
    /\ pc = "start" /\ LongRegime
    /\ cap_open' = TRUE
    /\ cap_pos' = 0
    /\ deq' = <<>>
    /\ current_index' = 0 - 1
    /\ last_frame' = NoFrame
    /\ pc' = "loop"
    /\ UNCHANGED <<resume, tail_i, v, clips, features>>
    /\ UNCHANGED inputVars /\ UNCHANGED fileVars
    /\ UNCHANGED procVars /\ UNCHANGED outVars

\* cap.read() past the end of the stream delivers nothing and does not advance
CapAfter(pos, reads) == IF pos + reads < n_decoded THEN pos + reads ELSE n_decoded

\* the deque after lines 195-203 of the iteration that retains `frame`
DeqAfterFrame(frame, first) ==
    DeqAppend(IF first THEN DeqAppendN(deq, frame, clip_frames \div 2 - 1, clip_frames)
                       ELSE deq,
              frame, clip_frames)

\* variant: the skipped frames are not counted
IndexAfterFrameDecimated == current_index + 1

\* current_index after lines 190 and 199-201
IndexAfterFrame == current_index + 1 + (sample_rate - 1)

\* lines 186-206, one iteration that reads a frame
LoopFrame ==
    /\ pc = "loop" /\ cap_pos < n_decoded
    /\ current_index' = IndexAfterFrame
    /\ last_frame' = cap_pos
    /\ cap_pos' = CapAfter(cap_pos, sample_rate)
    /\ deq' = DeqAfterFrame(cap_pos, current_index + 1 = 0)
    /\ IF InClipEndIndexes(current_index')
         THEN Yield(deq', "loop")
         ELSE /\ pc' = "loop"
              /\ UNCHANGED <<resume, v, clips>>
    /\ UNCHANGED <<cap_open, tail_i, features>>
    /\ UNCHANGED inputVars /\ UNCHANGED fileVars
    /\ UNCHANGED procVars /\ UNCHANGED outVars

\* lines 187-189 and 208: end of stream, break, cap.release()
LoopBreak ==
    /\ pc = "loop" /\ ~(cap_pos < n_decoded)
    /\ cap_open' = FALSE
    /\ tail_i' = 0
    /\ pc' = "tail"
    /\ UNCHANGED <<resume, cap_pos, deq, current_index, last_frame, v, clips, features>>
    /\ UNCHANGED inputVars /\ UNCHANGED fileVars
    /\ UNCHANGED procVars /\ UNCHANGED outVars

\* variant: one tail clip per slot of the window
TailCountFull == clip_frames

\* the number of iterations of the loop of line 210
TailCount == clip_frames \div 2

\* lines 210-213, one iteration of the tail flush (torch.stack rejects None)
TailFlush ==
    /\ pc = "tail" /\ tail_i < TailCount
    /\ deq' = DeqAppend(deq, last_frame, clip_frames)
    /\ tail_i' = tail_i + 1
    /\ IF last_frame = NoFrame
         THEN /\ pc' = "error"
              /\ UNCHANGED <<resume, v, clips>>
         ELSE Yield(deq', "tail")
    /\ UNCHANGED <<cap_open, cap_pos, current_index, last_frame, features>>
    /\ UNCHANGED inputVars /\ UNCHANGED fileVars
    /\ UNCHANGED procVars /\ UNCHANGED outVars

\* the generator function returns: StopIteration ends the for loop of line 132
TailEnd ==
    /\ pc = "tail" /\ ~(tail_i < TailCount)
    /\ pc' = "exhausted"
    /\ UNCHANGED genVars /\ UNCHANGED <<clips, features>>
    /\ UNCHANGED inputVars /\ UNCHANGED fileVars
    /\ UNCHANGED procVars /\ UNCHANGED outVars

\* lines 132-143: the body of the consumer's loop for the clip just yielded,
\* then the request for the next clip
\* the face crop resizes the frames to the size the detector is set up for
ProcessClip ==
    /\ pc = "yielded"
    /\ IF NeedsInit(crop_face, inited)
         THEN /\ inited' = InitedAfterInit
              /\ init_calls' = init_calls + 1
         ELSE UNCHANGED <<inited, init_calls>>
    /\ \E hw \in FrameSizes :
          /\ ~crop_face => hw = frame_hw
          /\ IF hw = HW224
               THEN /\ features' = FeaturesAfter(features, v)
                    /\ pc' = IF resume = "end" THEN "exhausted" ELSE resume
               ELSE /\ pc' = "failed"
                    /\ UNCHANGED features
    /\ UNCHANGED genVars /\ UNCHANGED clips
    /\ UNCHANGED inputVars /\ UNCHANGED fileVars
    /\ UNCHANGED outVars

\* a consumer of the generator stops pulling clips; the suspended generator is
\* closed at its yield, and _load_video has no finally clause
Abandon ==
    /\ pc = "yielded"
    /\ pc' = "closed"
    /\ UNCHANGED genVars /\ UNCHANGED <<clips, features>>
    /\ UNCHANGED inputVars /\ UNCHANGED fileVars
    /\ UNCHANGED procVars /\ UNCHANGED outVars

\* lines 145-152: torch.cat of the features (an empty list is rejected), then
\* the reduction the caller asked for
Finish ==
    /\ pc = "exhausted"
    /\ IF features = <<>>
         THEN /\ pc' = "error"
              /\ UNCHANGED outVars
         ELSE /\ pc' = "done"
              /\ \E red \in Reductions :
                    /\ reduction' = red
                    /\ result' = Reduce(red, features)
    /\ UNCHANGED genVars /\ UNCHANGED <<clips, features>>
    /\ UNCHANGED inputVars /\ UNCHANGED fileVars
    /\ UNCHANGED procVars

\* the per-call state before and between the calls of extract_video
CallIdle ==
    /\ clip_frames = 1 /\ sample_rate = 1 /\ stride = 1
    /\ total_frames = 0 /\ n_decoded = 0 /\ frame_hw = HW224
    /\ crop_face = FALSE
    /\ pc = "idle" /\ resume = "none"
    /\ cap_open = FALSE /\ cap_pos = 0
    /\ deq = <<>> /\ current_index = 0 - 1 /\ last_frame = NoFrame
    /\ tail_i = 0 /\ v = <<>>
    /\ clips = <<>> /\ features = <<>>
    /\ reduction = "none" /\ result = <<>>

\* lines 124-131 and 154-159: a call of extract_video on some video; the
\* generator object is created and nothing of its body has run
StartCall ==
    /\ pc = "idle" /\ init_calls <= MaxInitCalls
    /\ clip_frames' \in 1..MaxClip
    /\ sample_rate' \in 1..MaxRate
    /\ stride' \in 1..MaxStride
    /\ total_frames' \in 0..MaxFrames
    /\ n_decoded' \in 0..total_frames'
    /\ frame_hw' \in FrameSizes
    /\ crop_face' \in BOOLEAN
    /\ pc' = "start"
    /\ UNCHANGED genVars /\ UNCHANGED <<clips, features>>
    /\ UNCHANGED fileVars /\ UNCHANGED procVars /\ UNCHANGED outVars

\* the call is over (returned, raised, or its generator was dropped): its
\* locals are gone, the process-wide detector state stays
Return ==
    /\ pc \in {"done", "failed", "closed", "error"}
    /\ clip_frames' = 1 /\ sample_rate' = 1 /\ stride' = 1
    /\ total_frames' = 0 /\ n_decoded' = 0 /\ frame_hw' = HW224
    /\ crop_face' = FALSE
    /\ pc' = "idle" /\ resume' = "none"
    /\ cap_open' = FALSE /\ cap_pos' = 0
    /\ deq' = <<>> /\ current_index' = 0 - 1 /\ last_frame' = NoFrame
    /\ tail_i' = 0 /\ v' = <<>>
    /\ clips' = <<>> /\ features' = <<>>
    /\ reduction' = "none" /\ result' = <<>>
    /\ UNCHANGED fileVars /\ UNCHANGED procVars

\* ------------------------------------------------------------------ from_file

\* str.startswith / str.endswith on token sequences
StartsWith(s, prefix) ==
    Len(s) >= Len(prefix) /\ SubSeq(s, 1, Len(prefix)) = prefix
EndsWith(s, suffix) ==
    Len(s) >= Len(suffix) /\ SubSeq(s, Len(s) - Len(suffix) + 1, Len(s)) = suffix

\* the literals of lines 217, 219, 222 and 229
ExtPt == <<".", "pt">>
ExtCkpt == <<".", "ckpt">>
DiscriminatorPrefix == <<"discriminator">>
DecoderPrefix == <<"decoder", ".">>

\* weight names a checkpoint may hold
KeyUniverse ==
    { <<"encoder", ".", "x">>,
      <<"decoder", ".", "w">>,
      <<"decoder", "_aux", ".", "w">>,
      <<"encoder", ".", "decoder", ".", "q">>,
      <<"enc_dec_proj", ".", "weight">>,
      <<"discriminator", ".", "y">>,
      <<"discriminator", "_head", ".", "z">> }

\* checkpoint paths
PathUniverse ==
    { <<"m", ".", "pt">>,
      <<"m", ".", "ckpt">>,
      <<"m", ".", "ckpt", ".", "pt">>,
      <<"m", ".", "bin">>,
      <<"m", ".", "v2", ".", "bin">>,
      <<"run", ".", "d", "/", "m">>,
      <<"ckpt">> }

\* str.split('.'): the pieces between the dots, in order
RECURSIVE SplitDot(_, _)
SplitDot(s, piece) ==
    IF s = <<>> THEN <<piece>>
    ELSE IF Head(s) = "." THEN <<piece>> \o SplitDot(Tail(s), <<>>)
    ELSE SplitDot(Tail(s), Append(piece, Head(s)))

\* variant: the piece after the first dot, path.split('.')[1]
ExtensionFirst(p) ==
    LET pieces == SplitDot(p, <<>>)
    IN  pieces[IF Len(pieces) >= 2 THEN 2 ELSE 1]

\* line 226: path.split('.')[-1]
ExtensionOf(p) ==
    LET pieces == SplitDot(p, <<>>)
    IN  pieces[Len(pieces)]

\* line 226: the f-string of the ValueError
UnsupportedMessage(p) == <<"Unsupported file type: ">> \o ExtensionOf(p)

\* variant: only names beginning with "discriminator." are deleted
DropDiscriminatorDot(keys) ==
    {k \in keys : ~StartsWith(k, <<"discriminator", ".">>)}

\* lines 222-224: the mapping with the discriminator entries deleted
DropDiscriminator(keys) == {k \in keys : ~StartsWith(k, DiscriminatorPrefix)}

\* lines 217-224: the mapping from_file goes on with, by container format
LoadedStateDict(p, keys) ==
    IF EndsWith(p, ExtPt) THEN keys ELSE DropDiscriminator(keys)

\* variant: the scan looks for "decoder" without the dot
IsFeatureExtractorNoDot(keys) == ~(\E k \in keys : StartsWith(k, <<"decoder">>))

\* lines 228-233: the for/else scan
IsFeatureExtractor(keys) == ~(\E k \in keys : StartsWith(k, DecoderPrefix))

\* lines 65-87: which sub-modules __init__ builds
NewMarlin(afe) ==
    [built |-> TRUE,
     as_feature_extractor |-> afe,
     decoder |-> ~afe,
     enc_dec_proj |-> ~afe,
     loaded |-> {}]

\* lines 217-224, a supported extension
FromFileLoad ==
    /\ fpc = "start"
    /\ EndsWith(path, ExtPt) \/ EndsWith(path, ExtCkpt)
    /\ state_dict' = LoadedStateDict(path, stored)
    /\ fpc' = "classify"
    /\ UNCHANGED <<path, stored, ferror, as_feature_extractor, model>>
    /\ UNCHANGED videoVars

\* lines 225-226
FromFileUnsupported ==
    /\ fpc = "start"
    /\ ~(EndsWith(path, ExtPt) \/ EndsWith(path, ExtCkpt))
    /\ fpc' = "unsupported"
    /\ ferror' = UnsupportedMessage(path)
    /\ UNCHANGED <<path, stored, state_dict, as_feature_extractor, model>>
    /\ UNCHANGED videoVars

\* lines 227-233
FromFileClassify ==
    /\ fpc = "classify"
    /\ as_feature_extractor' = IsFeatureExtractor(state_dict)
    /\ fpc' = "construct"
    /\ UNCHANGED <<path, stored, state_dict, ferror, model>>
    /\ UNCHANGED videoVars

\* lines 235-255
FromFileConstruct ==
    /\ fpc = "construct"
    /\ model' = NewMarlin(as_feature_extractor)
    /\ fpc' = "load"
    /\ UNCHANGED <<path, stored, state_dict, ferror, as_feature_extractor>>
    /\ UNCHANGED videoVars

\* lines 256-257: the mapping is handed to load_state_dict as it is
FromFileLoadStateDict ==
    /\ fpc = "load"
    /\ model' = [model EXCEPT !.loaded = state_dict]
    /\ fpc' = "returned"
    /\ UNCHANGED <<path, stored, state_dict, ferror, as_feature_extractor>>
    /\ UNCHANGED videoVars

FileIdle ==
    /\ fpc = "idle" /\ path = <<>> /\ stored = {} /\ state_dict = {}
    /\ ferror = <<>>
    /\ as_feature_extractor = TRUE /\ model = [built |-> FALSE]

\* no call of extract_video yet, the face detector not initialised
VideoInit == CallIdle /\ inited = FALSE /\ init_calls = 0

VideoIdle == VideoInit

FileInit ==
    /\ fpc = "start"
    /\ path \in PathUniverse
    /\ stored \in SUBSET KeyUniverse
    /\ state_dict = {}
    /\ ferror = <<>>
    /\ as_feature_extractor = TRUE
    /\ model = [built |-> FALSE]

\* ---- extract_video on one video
Init == VideoInit /\ FileIdle

Next ==
    \/ StartCall
    \/ Return
    \/ LoadShort
    \/ LoadMedium
    \/ LoadLong
    \/ LoopFrame
    \/ LoopBreak
    \/ TailFlush
    \/ TailEnd
    \/ ProcessClip
    \/ Abandon
    \/ Finish

Spec == Init /\ [][Next]_vars

\* ---- from_file on one checkpoint
FileNext ==
    \/ FromFileLoad
    \/ FromFileUnsupported
    \/ FromFileClassify
    \/ FromFileConstruct
    \/ FromFileLoadStateDict

FileSpecInit == FileInit /\ VideoIdle

FileSpec == FileSpecInit /\ [][FileNext]_vars

\* ---- the reduction of lines 145-152 on a batch of feature vectors
FeatureBatches ==
    UNION {[1..n -> (0..MaxFeat) \X (0..MaxFeat)] : n \in 0..MaxBatch}

ReduceInit ==
    /\ clip_frames = 1 /\ sample_rate = 1 /\ stride = 1
    /\ total_frames = 0 /\ n_decoded = 0 /\ frame_hw = HW224
    /\ crop_face = FALSE
    /\ resume = "end"
    /\ cap_open = FALSE /\ cap_pos = 0
    /\ deq = <<>> /\ current_index = 0 - 1 /\ last_frame = NoFrame
    /\ tail_i = 0 /\ v = <<>> /\ clips = <<>>
    /\ reduction = "none" /\ result = <<>>
    /\ inited = FALSE /\ init_calls = 0
    /\ pc = "exhausted"
    /\ features \in FeatureBatches
    /\ FileIdle

ReduceSpec == ReduceInit /\ [][Finish]_vars

\* ===================================================================== claims

Terminated == pc \in {"done", "failed", "closed", "error"}
Completed == pc \in {"exhausted", "done"}
NonDecreasing(c) == \A i \in 1..(Len(c) - 1) : c[i] <= c[i + 1]
\* the frame in the middle of a clip (0-based index len // 2)
TemporalCentre(c) == c[Len(c) \div 2 + 1]

\* C1: in the long-video regime every clip yielded, streaming or tail flush,
\* holds exactly clip_frames frames.
C1_LongClipsHaveClipLength ==
    (LongRegime /\ n_decoded = total_frames) => \A i \in 1..Len(clips) : Len(clips[i]) = clip_frames

\* C2: in the medium-video regime, when the decoder delivers fewer than
\* clip_frames frames, the one clip emitted still holds clip_frames frames.
C2_MediumUnderReportPadded ==
    (MediumRegime /\ n_decoded < clip_frames /\ Len(clips) >= 1)
        => Len(clips[1]) = clip_frames

\* C3: in the short-video regime a non-empty decoded video yields exactly one
\* clip of clip_frames frames: the decoded frames in order, then copies of the
\* last decoded frame.
C3_ShortOneClipPadded ==
    (ShortRegime /\ n_decoded >= 1 /\ pc # "start")
        => /\ Len(clips) = 1
           /\ Len(clips[1]) = clip_frames
           /\ \A i \in 1..clip_frames :
                 clips[1][i] = IF i <= n_decoded THEN i - 1 ELSE n_decoded - 1

C3_Witness ==
    /\ ShortRegime /\ pc = "done"
    /\ n_decoded = total_frames /\ total_frames >= 2
    /\ total_frames + 2 <= clip_frames

\* C4: in the medium-video regime, when the decoder delivers at least
\* clip_frames frames, exactly one clip is yielded: decoded frames
\* 0 .. clip_frames-1, consecutive, whatever sample_rate is.
C4_MediumFirstFrames ==
    (MediumRegime /\ n_decoded >= clip_frames /\ pc # "start")
        => clips = << [i \in 1..clip_frames |-> i - 1] >>

C4_Witness ==
    /\ MediumRegime /\ pc = "done"
    /\ sample_rate = 3 /\ clip_frames >= 2 /\ n_decoded > clip_frames

\* C5: no execution ends with the decoder handle still open.
C5_HandleReleasedOnEveryExit == Terminated => ~cap_open

\* C8: the position compared against the emission index set advances by one
\* per retained frame.
C8_IndexCountsRetainedFrames ==
    [][(pc = "loop" /\ cap_pos' > cap_pos) => current_index' = current_index + 1]_vars

\* C9 as claimed: when the decoder delivers all total_frames frames of a long
\* video, total_frames clips are yielded while streaming and clip_frames // 2
\* more by the tail flush.
C9_ClipCountAsClaimed ==
    (LongRegime /\ n_decoded = total_frames /\ Completed)
        => Len(clips) = (total_frames - clip_frames \div 2) + clip_frames \div 2
                          + clip_frames \div 2

\* the retained frames k = 1, 2, ... whose raw position k * sample_rate - 1 is
\* an emission index
StreamMatches ==
    {k \in 1..((n_decoded + sample_rate - 1) \div sample_rate) :
        /\ clip_frames \div 2 <= k * sample_rate - 1
        /\ k * sample_rate - 1 < total_frames + clip_frames \div 2}

\* C9 amended: the clips of a long video are one per retained frame whose raw
\* decoder position after the skip is an emission index, plus clip_frames // 2
\* tail-flush clips.
C9_ClipCount ==
    (LongRegime /\ Completed)
        => Len(clips) = Cardinality(StreamMatches) + clip_frames \div 2

C9_Witness ==
    /\ LongRegime /\ pc = "done" /\ n_decoded = total_frames
    /\ sample_rate = 2 /\ clip_frames = 4
    /\ Len(clips) = Cardinality(StreamMatches) + 2
    /\ Cardinality(StreamMatches) >= 3

\* C10: within every clip the source positions never decrease, and from one
\* clip to the next the temporal centre never decreases.
C10_TemporalOrder ==
    /\ \A i \in 1..Len(clips) : Len(clips[i]) >= 1 /\ NonDecreasing(clips[i])
    /\ \A i \in 1..(Len(clips) - 1) :
          /\ TemporalCentre(clips[i]) <= TemporalCentre(clips[i + 1])
          /\ clips[i][1] <= clips[i + 1][1]
          /\ clips[i][Len(clips[i])] <= clips[i + 1][Len(clips[i + 1])]

C10_Witness ==
    /\ LongRegime /\ pc = "done" /\ clip_frames = 4 /\ Len(clips) >= 6
    /\ \E i \in 1..(Len(clips) - 1) :
          /\ Len(clips[i]) = clip_frames /\ Len(clips[i + 1]) = clip_frames
          /\ TemporalCentre(clips[i]) < TemporalCentre(clips[i + 1])
          /\ clips[i][1] < clips[i][clip_frames]

C7_FullModelIffDecoderKey ==
    LET hasDecoder == \E k \in state_dict :
                         Len(k) >= 2 /\ k[1] = "decoder" /\ k[2] = "."
    IN  /\ fpc \in {"construct", "load", "returned"}
            => (as_feature_extractor <=> ~hasDecoder)
        /\ fpc \in {"load", "returned"}
            => /\ model.built
               /\ model.as_feature_extractor = ~hasDecoder
               /\ model.decoder = hasDecoder
               /\ model.enc_dec_proj = hasDecoder

C7_Witness ==
    /\ fpc = "returned"
    /\ <<"decoder", ".", "w">> \in state_dict
    /\ model.decoder /\ model.enc_dec_proj /\ ~model.as_feature_extractor

C7_WitnessEncoderOnly ==
    /\ fpc = "returned"
    /\ <<"decoder", "_aux", ".", "w">> \in state_dict
    /\ <<"decoder", ".", "w">> \notin state_dict
    /\ ~model.decoder /\ model.as_feature_extractor

\* C11: the sliding window never holds more than clip_frames frames, and a
\* frame appended to a window holding clip_frames frames evicts the oldest
\* one: the others move up one place in their order and the new frame is last.
\* (The window lives for one call; the step that returns from the call is not
\* a step of the window.)
C11_WindowCapacityAndEviction ==
    [][ /\ Len(deq') <= clip_frames
        /\ (deq' # deq /\ Len(deq) = clip_frames /\ pc' # "idle")
              => /\ Len(deq') = clip_frames
                 /\ \A i \in 1..(clip_frames - 1) : deq'[i] = deq[i + 1]
                 /\ deq'[clip_frames] = last_frame' ]_vars

C11_Witness ==
    /\ LongRegime /\ pc = "tail" /\ tail_i = 1
    /\ clip_frames = 4 /\ Len(deq) = 4
    /\ deq[1] > 0 /\ deq[3] = last_frame /\ deq[4] = last_frame /\ deq[2] < deq[3]

\* C12: the feature extractor is applied once to each emitted clip, in
\* emission order, and without a reduction extract_video returns the whole
\* batch: one feature per clip, in clip emission order.
C12_OneFeaturePerClipInOrder ==
    /\ Len(features) <= Len(clips) /\ Len(clips) <= Len(features) + 1
    /\ \A i \in 1..Len(features) : features[i] = extract_features(clips[i])
    /\ pc \in {"exhausted", "done"} => Len(features) = Len(clips)
    /\ (pc = "done" /\ reduction \notin {"mean", "max"})
          => /\ Len(result) = Len(clips)
             /\ \A i \in 1..Len(clips) : result[i] = extract_features(clips[i])

C12_Witness ==
    /\ pc = "done" /\ reduction = "none"
    /\ Len(clips) >= 3 /\ Len(result) = Len(clips)
    /\ result[1] # result[2] /\ result[2] # result[3]

\* C13: the mean over a batch of identical feature vectors is that vector,
\* and the max over a batch in which one vector dominates all the others
\* coordinate by coordinate is that vector.
C13_MeanOfIdenticalMaxOfDominated ==
    pc = "done" =>
      /\ (reduction = "mean" /\ \A i \in 1..Len(features) : features[i] = features[1])
            => \A j \in 1..2 :
                  /\ result[j].den >= 1
                  /\ result[j].num = features[1][j] * result[j].den
      /\ reduction = "max"
            => \A i \in 1..Len(features) :
                  (\A k \in 1..Len(features) : \A j \in 1..2 :
                        features[i][j] >= features[k][j])
                     => result = features[i]

C13_Witness ==
    /\ pc = "done" /\ reduction = "mean"
    /\ features = << <<1, 0>>, <<1, 0>>, <<1, 0>> >>
    /\ result[1].num = result[1].den /\ result[2].num = 0

C13_WitnessMax ==
    /\ pc = "done" /\ reduction = "max"
    /\ features = << <<0, 1>>, <<1, 1>>, <<1, 0>> >>
    /\ result = <<1, 1>>

\* C14: the face detector is initialised at most once in the life of the
\* process, only by a clip processed with crop_face while it is not yet
\* initialised, and once initialised it stays initialised.
C14_DetectorInitialisedAtMostOnce ==
    [][ /\ init_calls' <= 1
        /\ init_calls' # init_calls
              => /\ pc = "yielded" /\ crop_face /\ ~inited
                 /\ inited' /\ init_calls' = init_calls + 1
        /\ inited => inited'
        /\ inited' # inited => init_calls' # init_calls ]_vars

C14_Witness ==
    /\ pc = "yielded" /\ crop_face /\ inited /\ init_calls = 1
    /\ Len(features) >= 2 /\ LongRegime

\* C15: a path that ends in neither ".pt" nor ".ckpt" makes from_file fail
\* with the message "Unsupported file type: " followed by what follows the
\* last dot of the path (the whole path when it has no dot), before anything
\* is loaded, classified or constructed; a supported path raises no such error.
C15_UnsupportedExtensionNamed ==
    LET n == Len(path)
        supported == n >= 2 /\ path[n - 1] = "." /\ path[n] \in {"pt", "ckpt"}
        named == SubSeq(ferror, 2, Len(ferror))
        at == n - Len(named)
    IN  /\ fpc # "start" => (fpc = "unsupported" <=> ~supported)
        /\ fpc = "unsupported"
              => /\ Len(ferror) >= 1 /\ ferror[1] = "Unsupported file type: "
                 /\ at >= 0 /\ named = SubSeq(path, at + 1, n)
                 /\ \A i \in 1..Len(named) : named[i] # "."
                 /\ at >= 1 => path[at] = "."
                 /\ state_dict = {} /\ ~model.built
        /\ fpc # "unsupported" => ferror = <<>>

C15_Witness ==
    /\ fpc = "unsupported" /\ path = <<"m", ".", "v2", ".", "bin">>
    /\ ferror = <<"Unsupported file type: ", "bin">>
    /\ stored # {}

\* C16: a video of total_frames <= clip_frames frames, the zero-length video
\* included, never makes _load_video raise or fail its length assertion.
C16_DegenerateInputsDoNotCrash ==
    (ShortRegime /\ n_decoded = total_frames) => pc # "error"

InSomeClip(f) == \E i \in 1..Len(clips) : \E j \in 1..Len(clips[i]) : clips[i][j] = f
DecodedFrames == 0..(n_decoded - 1)
RetainedFrames == {f \in DecodedFrames : f % sample_rate = 0}

\* C17 as claimed: once all clips are out, every decoded frame (short and
\* medium regime) or every frame retained by decimation (long regime) is in
\* at least one clip.
C17_WholeVideoCovered ==
    Completed =>
        \A f \in (IF LongRegime THEN RetainedFrames ELSE DecodedFrames) : InSomeClip(f)

\* C17 amended: the short regime covers every decoded frame, the long regime
\* with clip_frames >= 2 every retained frame; the medium regime covers the
\* first clip_frames decoded frames and no other, and the long regime with
\* clip_frames = 1 the retained frames whose skipped reads end before
\* total_frames and no other.
C17_CoveredFrames ==
    Completed =>
        /\ ShortRegime => \A f \in DecodedFrames : InSomeClip(f)
        /\ MediumRegime => \A f \in DecodedFrames : InSomeClip(f) <=> f < clip_frames
        /\ (LongRegime /\ clip_frames >= 2) => \A f \in RetainedFrames : InSomeClip(f)
        /\ (LongRegime /\ clip_frames = 1) =>
              \A f \in RetainedFrames : InSomeClip(f) <=> f + sample_rate - 1 < total_frames

C17_Witness ==
    /\ pc = "done" /\ LongRegime /\ clip_frames = 4 /\ sample_rate = 2
    /\ n_decoded = total_frames /\ Cardinality(RetainedFrames) >= 6
    /\ \A f \in RetainedFrames : InSomeClip(f)
    /\ ~InSomeClip(1)

LastRetained == CHOOSE f \in RetainedFrames : \A g \in RetainedFrames : g <= f

C19_PullDrivenStageSequential ==
    [][ LongRegime =>
          /\ (pc = "loop" /\ pc' = "yielded") =>
                /\ last_frame' = cap_pos
                /\ deq'[Len(deq')] = cap_pos
                /\ v' = deq'
                /\ clips' = Append(clips, v')
          /\ (pc = "yielded") =>
                /\ Len(features) + 1 = Len(clips)
                /\ cap_pos' = cap_pos /\ cap_open' = cap_open
                /\ deq' = deq /\ current_index' = current_index
                /\ clips' = clips
          /\ (pc \in {"loop", "tail"}) => Len(features) = Len(clips)
          /\ (pc = "yielded" /\ pc' \in {"loop", "tail"}) =>
                Len(features') = Len(features) + 1
      ]_vars

C19_Witness ==
    /\ LongRegime /\ pc = "yielded" /\ resume = "loop"
    /\ Len(clips) = 3 /\ Len(features) = 2
    /\ v = deq /\ cap_pos < n_decoded /\ cap_open

\* ------------------------------------------ _load_video as a function of stride

\* lines 210-213 run to the end: the clips of the tail flush after `out`
RECURSIVE TailClips(_, _, _, _)
TailClips(d, last, i, out) ==
    IF ~(i < TailCount) THEN [clips |-> out, ok |-> TRUE]
    ELSE IF last = NoFrame THEN [clips |-> out, ok |-> FALSE]
    ELSE LET d2 == DeqAppend(d, last, clip_frames)
         IN  TailClips(d2, last, i + 1, Append(out, d2))

\* lines 186-213 run to the end from decoder position pos, for stride s
RECURSIVE LoopClips(_, _, _, _, _, _)
LoopClips(pos, d, idx, last, out, s) ==
    IF ~(pos < n_decoded) THEN TailClips(d, last, 0, out)
    ELSE LET idx2 == idx + 1 + (sample_rate - 1)
             d2 == DeqAppend(IF idx + 1 = 0
                               THEN DeqAppendN(d, pos, clip_frames \div 2 - 1, clip_frames)
                               ELSE d,
                             pos, clip_frames)
             out2 == IF idx2 \in ClipEndIndexes(s) THEN Append(out, d2) ELSE out
         IN  LoopClips(CapAfter(pos, sample_rate), d2, idx2, pos, out2, s)

\* every clip _load_video(video_path, sample_rate, s) yields when it is pulled
\* to the end, and whether it ends without raising
load_video(s) ==
    IF ShortRegime
      THEN IF n_decoded = 0 \/ Len(ShortClip) # clip_frames
             THEN [clips |-> <<>>, ok |-> FALSE]
             ELSE [clips |-> <<ShortClip>>, ok |-> TRUE]
    ELSE IF MediumRegime
      THEN IF n_decoded = 0
             THEN [clips |-> <<>>, ok |-> FALSE]
             ELSE [clips |-> <<MediumClip>>, ok |-> TRUE]
    ELSE LoopClips(0, <<>>, 0 - 1, NoFrame, <<>>, s)

\* C20: for the inputs of any call, _load_video yields the same clips for
\* every stride, and the clips of a completed call are those clips.
C20_StrideIsNoOp ==
    /\ pc = "start" => \A s \in 1..MaxStride : load_video(s) = load_video(stride)
    /\ Completed => load_video(stride) = [clips |-> clips, ok |-> TRUE]

C20_Witness ==
    /\ pc = "done" /\ LongRegime /\ stride = 2 /\ sample_rate = 1
    /\ Len(clips) >= 6
    /\ load_video(1).clips = clips
    /\ ClipEndIndexesStrided(1) # ClipEndIndexesStrided(2)

====
